---- MODULE Spec2Model ----
(***************************************************************************)
(* Model of python/pdf_service.py: the PDF parsing service of LocalRAG.    *)
(*                                                                         *)
(* The service is a blocking, single-threaded HTTPServer: one request is   *)
(* handled from its first byte to its response before the next one is      *)
(* accepted.  The state is the module-level PDF_LIBRARY flag, the request  *)
(* being handled, what its peer has put on the socket so far, and the      *)
(* response the handler has written.                                       *)
(*                                                                         *)
(* Strings that the code inspects character by character (page texts, the  *)
(* joined text) are sequences of one-character strings.  The PDF decoding  *)
(* itself belongs to the backing library: a request body is modelled by    *)
(* what the library makes of it (the document).                            *)
(***************************************************************************)
EXTENDS Integers, Sequences, FiniteSets, TLC

\* Number of bytes of the document a peer has to send as a request body.
BodyLen == 2
\* Largest number of pages, and of characters on all pages together, of the
\* documents extract_text is applied to under ExtractSpec.
MaxPages == 3
MaxChars == 3

VARIABLES
    installed,    \* the libraries that can be imported in this environment
    PDF_LIBRARY,  \* the module-level selection flag
    pc,           \* "idle": serve_forever waits; "handle": a request is being handled
    req,          \* the request being handled (the last one, when idle)
    sent,         \* body bytes the peer has put on the socket so far
    closed,       \* the peer has shut down its sending side
    resp,         \* how the handling of req ended: what went out on the wire
    calls,        \* what the handler did for req: body read, extract_text call
    probe         \* an earlier POST /parse exchange, kept for comparison

vars == <<installed, PDF_LIBRARY, pc, req, sent, closed, resp, calls, probe>>

None == "None"

---------------------------------------------------------------------------
(* Library selection at import time (lines 15-25). *)

\* Mutant: the probing order swapped.
SelectPlumberFirst(avail) ==
    IF "pdfplumber" \in avail THEN "pdfplumber"
    ELSE IF "pypdf" \in avail THEN "pypdf"
    ELSE None

SelectLibrary(avail) ==
    IF "pypdf" \in avail THEN "pypdf"
    ELSE IF "pdfplumber" \in avail THEN "pdfplumber"
    ELSE None

---------------------------------------------------------------------------
(* Documents: what the backing library makes of a byte string. *)

Whitespace == {" ", "\n"}
Alphabet == {"a", " ", "\n"}

SeqsUpTo(S, n) == UNION {[1..k -> S] : k \in 0..n}

\* The byte string is a document of these pages.
Pdf(pages) == [valid |-> TRUE, pages |-> pages, msg |-> ""]
\* The byte string is no document: the library raises an exception whose
\* str() is msg.
Junk(msg) == [valid |-> FALSE, pages |-> <<>>, msg |-> msg]

NoDoc == Junk("no body")

\* The exception messages of the backing libraries: an exception raised
\* without arguments has the empty message.
Messages == {"", "invalid pdf header"}

\* The bodies the peers of the service send.
ServerDocs ==
    {Junk(m) : m \in Messages} \cup
    {Pdf(<< <<"a">> >>), Pdf(<< <<>>, <<" ", "a">> >>)}

\* The page lists of exactly k pages with at most c characters in all.
RECURSIVE PageLists(_, _)
PageLists(k, c) ==
    IF k = 0 THEN {<<>>}
    ELSE UNION {{<<t>> \o rest : rest \in PageLists(k - 1, c - Len(t))} :
                t \in SeqsUpTo(Alphabet, c)}

\* The documents extract_text is applied to under ExtractSpec.
AllDocs ==
    {Junk(m) : m \in Messages} \cup
    {Pdf(p) : p \in UNION {PageLists(k, MaxChars) : k \in 0..MaxPages}}

\* pdf_bytes: the first n bytes of the body that stands for doc.
Bytes(doc, n) == [doc |-> doc, n |-> n]

\* pypdf.PdfReader(io.BytesIO(pdf_bytes)) / pdfplumber.open(...): the whole
\* body is the document; a truncated body is no document.
LibraryOpen(pdf_bytes) ==
    IF pdf_bytes.n = BodyLen THEN pdf_bytes.doc
    ELSE Junk("EOF marker not found")

---------------------------------------------------------------------------
(* extract_text_pypdf, extract_text_pdfplumber, extract_text. *)

Raise(msg) == [raised |-> TRUE, msg |-> msg, text |-> <<>>, pages |-> 0]
Return(text, pages) == [raised |-> FALSE, msg |-> "", text |-> text, pages |-> pages]

\* Mutant: the loop without its "if text" test.
CollectAllParts(pages, text_parts) == text_parts \o pages

\* for page in pages: text = page.extract_text(); if text: text_parts.append(text)
RECURSIVE CollectParts(_, _)
CollectParts(pages, text_parts) ==
    IF pages = <<>> THEN text_parts
    ELSE LET text == Head(pages)
         IN  CollectParts(Tail(pages),
                          IF text # <<>> THEN Append(text_parts, text) ELSE text_parts)

\* sep.join(parts)
RECURSIVE join(_, _)
join(sep, parts) ==
    IF parts = <<>> THEN <<>>
    ELSE IF Len(parts) = 1 THEN parts[1]
    ELSE parts[1] \o sep \o join(sep, Tail(parts))

RECURSIVE lstrip(_)
lstrip(s) ==
    IF s # <<>> /\ Head(s) \in Whitespace THEN lstrip(Tail(s)) ELSE s

RECURSIVE rstrip(_)
rstrip(s) ==
    IF s # <<>> /\ s[Len(s)] \in Whitespace THEN rstrip(SubSeq(s, 1, Len(s) - 1)) ELSE s

\* str.strip()
strip(s) == rstrip(lstrip(s))

extract_text_pypdf(pdf_bytes) ==
    LET reader == LibraryOpen(pdf_bytes)
    IN  IF ~reader.valid THEN Raise(reader.msg)
        ELSE LET pages == Len(reader.pages)
                 text_parts == CollectParts(reader.pages, <<>>)
             IN  Return(join(<<"\n", "\n">>, text_parts), pages)

extract_text_pdfplumber(pdf_bytes) ==
    LET pdf == LibraryOpen(pdf_bytes)
    IN  IF ~pdf.valid THEN Raise(pdf.msg)
        ELSE LET pages == Len(pdf.pages)
                 text_parts == CollectParts(pdf.pages, <<>>)
             IN  Return(join(<<"\n", "\n">>, text_parts), pages)

extract_text(library, pdf_bytes) ==
    IF library = None
    THEN [error |-> "No PDF library installed", text |-> <<>>, pages |-> 0]
    ELSE LET r == IF library = "pypdf"
                  THEN extract_text_pypdf(pdf_bytes)
                  ELSE extract_text_pdfplumber(pdf_bytes)
         IN  IF r.raised
             THEN [error |-> r.msg, text |-> <<>>, pages |-> 0]
             ELSE [text |-> strip(r.text), pages |-> r.pages, library |-> library]

---------------------------------------------------------------------------
(* Requests and responses. *)

Methods == {"GET", "POST", "PUT"}
Paths == {"/health", "/parse", "/other"}

\* The Content-Length header: absent, or its text.
Absent == "<absent>"
ContentLengths ==
    {Absent, "0", "-1", "abc"} \cup {ToString(n) : n \in 1..(BodyLen + 1)}

\* int(x): the integer x is the decimal text of, or ValueError.
int(x) ==
    IF \E n \in -1..(BodyLen + 1) : ToString(n) = x
    THEN [ok |-> TRUE, val |-> CHOOSE n \in -1..(BodyLen + 1) : ToString(n) = x]
    ELSE [ok |-> FALSE, val |-> 0]

\* Mutant: int(self.headers['Content-Length']), without the default.
content_length_required(r) == int(r.cl)

\* int(self.headers.get('Content-Length', 0))
content_length(r) ==
    IF r.cl = Absent THEN [ok |-> TRUE, val |-> 0] ELSE int(r.cl)

Request(method, path, cl, doc) ==
    [method |-> method, path |-> path, cl |-> cl, doc |-> doc]

NoReq == Request("", "", Absent, NoDoc)

\* Only do_POST looks at the Content-Length header and the body: the
\* requests of the other methods come without them.
HeadersOf(method) == IF method = "POST" THEN ContentLengths ELSE {Absent}
BodiesOf(method) == IF method = "POST" THEN ServerDocs ELSE {NoDoc}

\* The members of a JSON object, in the order json.dumps writes them.
JString(key, s) == [key |-> key, type |-> "string", s |-> s, t |-> <<>>, n |-> 0]
JText(key, t) == [key |-> key, type |-> "string", s |-> "", t |-> t, n |-> 0]
JNumber(key, n) == [key |-> key, type |-> "number", s |-> "", t |-> <<>>, n |-> n]
JNull(key) == [key |-> key, type |-> "null", s |-> "", t |-> <<>>, n |-> 0]
JLibrary(key, library) ==
    IF library = None THEN JNull(key) ELSE JString(key, library)

\* json.dumps(data) for the dicts the service builds; a dict keeps the order
\* its literal gives its keys.
json_dumps(data) ==
    IF DOMAIN data = {"status", "library"}
    THEN <<JString("status", data.status), JLibrary("library", data.library)>>
    ELSE IF DOMAIN data = {"error"}
    THEN <<JString("error", data.error)>>
    ELSE IF DOMAIN data = {"error", "text", "pages"}
    THEN <<JString("error", data.error), JText("text", data.text),
           JNumber("pages", data.pages)>>
    ELSE <<JText("text", data.text), JNumber("pages", data.pages),
           JLibrary("library", data.library)>>

NoResp == [kind |-> "none", status |-> 0, ctype |-> "", body |-> <<>>]

\* _send_json(data, status)
send_json(data, status) ==
    [kind |-> "response", status |-> status, ctype |-> "application/json",
     body |-> json_dumps(data)]

\* An exception left the handler: socketserver logs it and closes the
\* connection; nothing was written.
Uncaught == [kind |-> "exception", status |-> 0, ctype |-> "", body |-> <<>>]

\* BaseHTTPRequestHandler answers a method the handler has no do_ method for.
Unsupported == [kind |-> "response", status |-> 501, ctype |-> "text/html", body |-> <<>>]

NoResult == [skipped |-> TRUE]
NoCalls == [read |-> FALSE, nread |-> 0, extract |-> FALSE, result |-> NoResult]

\* age: the exchanges ended since the one kept, the kept one included
\* (1: it is the last one; 2: one more; 3: two or more).
NoProbe == [set |-> FALSE, req |-> NoReq, nread |-> 0, resp |-> NoResp, age |-> 0]

Kept(r, nread, response) ==
    [set |-> TRUE, req |-> r, nread |-> nread, resp |-> response, age |-> 1]

Aged(p) ==
    IF p.set /\ p.age < 3 THEN [p EXCEPT !.age = p.age + 1] ELSE p

---------------------------------------------------------------------------
(* Start-up. *)

Init ==
    /\ installed \in SUBSET {"pypdf", "pdfplumber"}
    /\ PDF_LIBRARY = SelectLibrary(installed)
    /\ pc = "idle"
    /\ req = NoReq
    /\ sent = 0
    /\ closed = FALSE
    /\ resp = NoResp
    /\ calls = NoCalls
    /\ probe = NoProbe

---------------------------------------------------------------------------
(* The peers. *)

\* serve_forever accepts the next request: its request line and headers
\* are in, its body is still to come.
Arrive ==
    /\ pc = "idle"
    /\ \E method \in Methods, path \in Paths :
          \E cl \in HeadersOf(method), doc \in BodiesOf(method) :
             req' = Request(method, path, cl, doc)
    /\ pc' = "handle"
    /\ sent' = 0
    /\ closed' = FALSE
    /\ resp' = NoResp
    /\ calls' = NoCalls
    /\ UNCHANGED <<installed, PDF_LIBRARY, probe>>

\* The peer puts the next byte of its body on the socket.
PeerSend ==
    /\ pc = "handle"
    /\ ~closed
    /\ sent < BodyLen
    /\ sent' = sent + 1
    /\ UNCHANGED <<installed, PDF_LIBRARY, pc, req, closed, resp, calls, probe>>

\* The peer shuts down its sending side.
PeerClose ==
    /\ pc = "handle"
    /\ ~closed
    /\ closed' = TRUE
    /\ UNCHANGED <<installed, PDF_LIBRARY, pc, req, sent, resp, calls, probe>>

---------------------------------------------------------------------------
(* The handler. *)

\* self.rfile.read(n) returns once n bytes are in or the peer has shut
\* down; read(-1) reads until the peer shuts down.
ReadReady(n) == IF n < 0 THEN closed ELSE sent >= n \/ closed
ReadCount(n) == IF n < 0 \/ sent < n THEN sent ELSE n

\* Mutant: a failed extraction switches the library off.
FinishDegrading(response, did) ==
    /\ resp' = response
    /\ calls' = did
    /\ pc' = "idle"
    /\ sent' = 0
    /\ closed' = FALSE
    /\ PDF_LIBRARY' = IF response.status = 500 THEN None ELSE PDF_LIBRARY
    /\ UNCHANGED <<installed, req>>

\* The handling of req ends: the connection is closed and serve_forever
\* goes on to the next request.
Finish(response, did) ==
    /\ resp' = response
    /\ calls' = did
    /\ pc' = "idle"
    /\ sent' = 0
    /\ closed' = FALSE
    /\ UNCHANGED <<installed, PDF_LIBRARY, req>>

\* Mutant: the service reports itself unavailable when no library is selected.
do_GET_degraded ==
    /\ pc = "handle"
    /\ req.method = "GET"
    /\ IF req.path = "/health"
       THEN Finish(send_json([status |-> "ok", library |-> PDF_LIBRARY],
                             IF PDF_LIBRARY = None THEN 503 ELSE 200), NoCalls)
       ELSE Finish(send_json([error |-> "Use POST /parse with PDF data"], 400), NoCalls)
    /\ probe' = Aged(probe)

do_GET ==
    /\ pc = "handle"
    /\ req.method = "GET"
    /\ IF req.path = "/health"
       THEN Finish(send_json([status |-> "ok", library |-> PDF_LIBRARY], 200), NoCalls)
       ELSE Finish(send_json([error |-> "Use POST /parse with PDF data"], 400), NoCalls)
    /\ probe' = Aged(probe)

\* The response of do_POST to the extraction result.
parse_response(result) ==
    IF "error" \in DOMAIN result /\ result.error # ""
    THEN send_json(result, 500)
    ELSE send_json(result, 200)

\* do_POST once the path is known to be /parse.
do_POST_parse ==
    LET cl == content_length(req)
    IN  IF ~cl.ok
        THEN /\ Finish(Uncaught, NoCalls)
             /\ probe' \in {Aged(probe), Kept(req, 0, Uncaught)}
        ELSE IF cl.val = 0
        THEN LET response == send_json([error |-> "No PDF data"], 400)
             IN  /\ Finish(response, NoCalls)
                 /\ probe' \in {Aged(probe), Kept(req, 0, response)}
        ELSE /\ ReadReady(cl.val)
             /\ LET nread == ReadCount(cl.val)
                    pdf_bytes == Bytes(req.doc, nread)
                    result == extract_text(PDF_LIBRARY, pdf_bytes)
                    response == parse_response(result)
                IN  /\ Finish(response,
                              [read |-> TRUE, nread |-> nread,
                               extract |-> TRUE, result |-> result])
                    /\ probe' \in {Aged(probe), Kept(req, nread, response)}

\* Mutant: the path is not looked at.
do_POST_any_path ==
    /\ pc = "handle"
    /\ req.method = "POST"
    /\ do_POST_parse

do_POST ==
    /\ pc = "handle"
    /\ req.method = "POST"
    /\ IF req.path # "/parse"
       THEN /\ Finish(send_json([error |-> "Unknown endpoint"], 404), NoCalls)
            /\ probe' = Aged(probe)
       ELSE do_POST_parse

\* A method PDFHandler defines no do_ method for.
do_other ==
    /\ pc = "handle"
    /\ req.method \notin {"GET", "POST"}
    /\ Finish(Unsupported, NoCalls)
    /\ probe' = Aged(probe)

Handle == do_GET \/ do_POST \/ do_other

Next == Arrive \/ PeerSend \/ PeerClose \/ do_GET \/ do_POST \/ do_other

Spec == Init /\ [][Next]_vars

\* The handler runs whenever it can; nothing obliges a peer to send or close.
FairSpec == Spec /\ WF_vars(Handle)

---------------------------------------------------------------------------
(* extract_text applied to every document of the bounds: a POST /parse     *)
(* whose whole body is on the socket, under every library selection.       *)

ExtractInit ==
    /\ installed \in SUBSET {"pypdf", "pdfplumber"}
    /\ PDF_LIBRARY = SelectLibrary(installed)
    /\ pc = "handle"
    /\ \E doc \in AllDocs : req = Request("POST", "/parse", ToString(BodyLen), doc)
    /\ sent = BodyLen
    /\ closed = FALSE
    /\ resp = NoResp
    /\ calls = NoCalls
    /\ probe = NoProbe

ExtractNext == do_POST

ExtractSpec == ExtractInit /\ [][ExtractNext]_vars

---------------------------------------------------------------------------
(* Properties. *)

\* The handling of a request has ended: resp and calls are its outcome.
Done == pc = "idle" /\ req # NoReq

IsParse == req.method = "POST" /\ req.path = "/parse"
IsHealth == req.method = "GET" /\ req.path = "/health"

HasMember(body, key) == \E i \in 1..Len(body) : body[i].key = key
Member(body, key) == body[CHOOSE i \in 1..Len(body) : body[i].key = key]
Keys(body) == [i \in 1..Len(body) |-> body[i].key]

IsJson(response) ==
    /\ response.kind = "response"
    /\ response.ctype = "application/json"

\* The library the start-up probing selects: the first of pypdf and
\* pdfplumber that can be imported.
StartupSelection ==
    IF "pypdf" \in installed THEN "pypdf"
    ELSE IF installed # {} THEN "pdfplumber"
    ELSE None

\* The body {error: msg} of the fixed error responses.
ErrorBody(msg) ==
    <<[key |-> "error", type |-> "string", s |-> msg, t |-> <<>>, n |-> 0]>>

\* C1: a POST /parse with a non-empty body that is no valid PDF document
\* (the library raises on it, whatever the message, or no library is
\* selected) is answered 500 with a non-empty error, text "" and pages 0.
InvalidPdfGets500 ==
    (/\ Done
     /\ IsParse
     /\ calls.extract
     /\ calls.nread > 0
     /\ content_length(req).val > 0
     /\ PDF_LIBRARY = None \/ ~LibraryOpen(Bytes(req.doc, calls.nread)).valid)
    => /\ IsJson(resp)
       /\ resp.status = 500
       /\ HasMember(resp.body, "error")
       /\ Member(resp.body, "error").s # ""
       /\ HasMember(resp.body, "text")
       /\ Member(resp.body, "text").t = <<>>
       /\ HasMember(resp.body, "pages")
       /\ Member(resp.body, "pages").n = 0

\* C2: a POST /parse whose Content-Length header is 0 or absent is answered
\* 400 {error: "No PDF data"}; the body is not read and extract_text is not
\* called, whatever the library selection.
EmptyBodyGets400 ==
    (Done /\ IsParse /\ req.cl \in {Absent, "0"})
    => /\ IsJson(resp)
       /\ resp.status = 400
       /\ resp.body = ErrorBody("No PDF data")
       /\ ~calls.read
       /\ calls.nread = 0
       /\ ~calls.extract

EmptyBodyWitness ==
    /\ Done
    /\ IsParse
    /\ req.cl = Absent
    /\ PDF_LIBRARY = "pypdf"
    /\ req.doc.valid
    /\ resp.status = 400

\* C3: no GET or POST request leaves the handler through an uncaught
\* exception or without a response: each is answered with a status code and
\* a JSON body.
EveryFailureAnswered ==
    (Done /\ req.method \in {"GET", "POST"})
    => /\ IsJson(resp)
       /\ resp.status \in {200, 400, 404, 500}
       /\ resp.body # <<>>

\* C4: GET /health is answered 200 {status: "ok", library: <selection>} in
\* every selection state, the library being the start-up selection (null
\* when there is none), and extract_text is not called.
HealthAlwaysOk ==
    (Done /\ IsHealth)
    => /\ IsJson(resp)
       /\ resp.status = 200
       /\ Keys(resp.body) = <<"status", "library">>
       /\ resp.body[1].type = "string"
       /\ resp.body[1].s = "ok"
       /\ IF StartupSelection = None
          THEN resp.body[2].type = "null"
          ELSE resp.body[2].type = "string" /\ resp.body[2].s = StartupSelection
       /\ ~calls.read
       /\ ~calls.extract

HealthWitness ==
    /\ Done
    /\ IsHealth
    /\ installed = {}
    /\ resp.status = 200
    /\ resp.body[2].type = "null"

RECURSIVE JoinedPages(_)
JoinedPages(pages) ==
    IF pages = <<>> THEN <<>>
    ELSE LET rest == JoinedPages(Tail(pages))
             more == \E i \in 2..Len(pages) : pages[i] # <<>>
         IN  IF Head(pages) = <<>> THEN rest
             ELSE IF more THEN Head(pages) \o <<"\n", "\n">> \o rest
             ELSE Head(pages)

\* t is s without its leading and trailing whitespace.
IsTrimOf(t, s) ==
    \E i \in 1..(Len(s) + 1), j \in 0..Len(s) :
       /\ t = SubSeq(s, i, j)
       /\ \A k \in 1..(i - 1) : s[k] \in Whitespace
       /\ \A k \in (j + 1)..Len(s) : s[k] \in Whitespace
       /\ t # <<>> => t[1] \notin Whitespace /\ t[Len(t)] \notin Whitespace

\* C6: for a document the selected library decodes into page texts,
\* extract_text returns as text the page texts that yield text, in page
\* order, joined by one double line break and trimmed of leading and
\* trailing whitespace; pages without text add nothing, and pages is the
\* page count of the document, the skipped pages included.
ExtractJoinsPages ==
    (/\ pc = "idle"
     /\ calls.extract
     /\ calls.nread = BodyLen
     /\ PDF_LIBRARY # None
     /\ req.doc.valid)
    => /\ DOMAIN calls.result = {"text", "pages", "library"}
       /\ calls.result.pages = Len(req.doc.pages)
       /\ IsTrimOf(calls.result.text, JoinedPages(req.doc.pages))

ExtractJoinsWitness ==
    /\ pc = "idle"
    /\ calls.extract
    /\ PDF_LIBRARY = "pdfplumber"
    /\ req.doc.valid
    /\ Len(req.doc.pages) = 3
    /\ req.doc.pages[1] = <<" ", "a">>
    /\ req.doc.pages[2] = <<>>
    /\ req.doc.pages[3] = <<"a">>
    /\ calls.result.pages = 3
    /\ calls.result.text = <<"a", "\n", "\n", "a">>

\* C7: the response to a POST /parse with a non-empty body is 500 exactly
\* when the extraction result carries a non-empty error, with the body
\* {error, text: "", pages: 0}; in every other case it is 200 with the
\* fields text, pages and library of a successful extraction.
ParseStatusFollowsResult ==
    (Done /\ IsParse /\ calls.extract)
    => LET failed == "error" \in DOMAIN calls.result /\ calls.result.error # ""
       IN  /\ IsJson(resp)
           /\ resp.status = 500 <=> failed
           /\ failed =>
                 /\ Keys(resp.body) = <<"error", "text", "pages">>
                 /\ resp.body[2].t = <<>>
                 /\ resp.body[3].n = 0
           /\ ~failed =>
                 /\ resp.status = 200
                 /\ Keys(resp.body) = <<"text", "pages", "library">>
                 /\ resp.body[3].s = PDF_LIBRARY

\* C8: every POST /parse that declares a Content-Length is eventually
\* answered, whatever value it declares and however many bytes the peer
\* sends.
DeclaredParseAnswered ==
    (pc = "handle" /\ IsParse /\ req.cl # Absent) ~> (pc = "idle")

\* C9: the same POST /parse request with the same bytes gets the same
\* status and the same JSON body as an earlier one, whatever was handled in
\* between.
SameRequestSameResponse ==
    (Done /\ IsParse /\ probe.set /\ probe.req = req /\ probe.nread = calls.nread)
    => probe.resp = resp

\* An earlier exchange is compared with a later one of the same request,
\* other requests having been handled in between.
SameRequestWitness ==
    /\ Done
    /\ probe.age = 3
    /\ IsParse
    /\ probe.set
    /\ probe.req = req
    /\ probe.nread = calls.nread
    /\ calls.extract
    /\ resp.status = 200
    /\ HasMember(resp.body, "library")
    /\ Member(resp.body, "text").t = <<"a">>
    /\ Len(req.doc.pages) = 2

\* C10: PDF_LIBRARY is the start-up selection (pypdf if it loads, otherwise
\* pdfplumber if it loads, otherwise none) after any sequence of requests,
\* and the library field of every /health response and of the response to
\* every successful extraction of a /parse request equals it.
SelectionIsFixed ==
    /\ PDF_LIBRARY = StartupSelection
    /\ (Done /\ IsHealth) =>
          /\ HasMember(resp.body, "library")
          /\ IF StartupSelection = None
             THEN Member(resp.body, "library").type = "null"
             ELSE Member(resp.body, "library").s = StartupSelection
    /\ (/\ Done
        /\ IsParse
        /\ calls.extract
        /\ StartupSelection # None
        /\ LibraryOpen(Bytes(req.doc, calls.nread)).valid) =>
          /\ resp.status = 200
          /\ HasMember(resp.body, "library")
          /\ Member(resp.body, "library").type = "string"
          /\ Member(resp.body, "library").s = StartupSelection

\* A failed extraction has been answered and a successful one of the same
\* process is compared with it: the selection is still pdfplumber.
SelectionWitness ==
    /\ Done
    /\ IsParse
    /\ installed = {"pdfplumber"}
    /\ probe.set
    /\ probe.age > 1
    /\ probe.resp.status = 500
    /\ resp.status = 200
    /\ HasMember(resp.body, "library")
    /\ Member(resp.body, "library").s = "pdfplumber"

====
